---- MODULE Spec2Model ----
(***************************************************************************)
(* jsdiscordbot: the dispatcher (DiscordBot.launch, messageCreate), its    *)
(* handler registries (command / hears / action / on), the middleware      *)
(* pipeline (session(), SceneManager.middleware, user middleware), the     *)
(* global error handler, the button interactions (interactionCreate), the  *)
(* scene engine (Scene.enter / handle / leave) and the session stores.     *)
(*                                                                         *)
(* Strings are sequences of one-character strings.  A session is a         *)
(* function from the keys it holds to their values; a store is a function  *)
(* from the ids it holds to sessions.                                      *)
(***************************************************************************)
EXTENDS Integers, Sequences, FiniteSets, TLC

\* ------------------------------------------------------------ bounds
\* longest message content / pattern, in characters
MaxLen == 2
\* longest registered scene, in steps
MaxSteps == 3

\* how many times in all a step may throw or signal retry
MaxFailures == 2

\* ------------------------------------------------------------ inputs
PrefixChars == {"/", "!"}
BodyChars == {"a", " "}
Alphabet == PrefixChars \cup BodyChars

\* message contents: any character first, body characters after it
Contents ==
  UNION { { s \in [1..n -> Alphabet] : \A i \in 2..n : s[i] \in BodyChars } : n \in 0..MaxLen }

Users == {"u1"}
Channels == {"c1"}
SceneName == "reg"
StepCounts == 2..MaxSteps

\* ------------------------------------------------------------ strings
\* String.prototype.startsWith(ch)
startsWith(s, ch) == Len(s) > 0 /\ s[1] = ch

\* String.prototype.slice(1)
slice1(s) == IF Len(s) = 0 THEN s ELSE SubSeq(s, 2, Len(s))

\* s.split(' ')[0]: the characters before the first space
FirstSpace(s) ==
  IF \E i \in 1..Len(s) : s[i] = " "
  THEN CHOOSE i \in 1..Len(s) : s[i] = " " /\ \A j \in 1..(i - 1) : s[j] # " "
  ELSE Len(s) + 1

split0(s) == SubSeq(s, 1, FirstSpace(s) - 1)

\* cmd.replace(/^\//, ''): one leading "/" removed, "!" kept
replaceSlash(cmd) == IF startsWith(cmd, "/") THEN slice1(cmd) ELSE cmd

\* RegExp.prototype.test for the unanchored literal patterns of the example
\* (/\d{4}/, /test.*/, /REGEX_.*/): the input contains the literal
test(re, s) ==
  \E i \in 1..(Len(s) + 1) :
    /\ i + Len(re) - 1 <= Len(s)
    /\ SubSeq(s, i, i + Len(re) - 1) = re

\* JavaScript truthiness of a string
truthy(s) == Len(s) > 0

\* ------------------------------------------------------------ sessions
EmptySession == << >>

has(s, k) == k \in DOMAIN s

\* s[k] = v on a JavaScript object
put(s, k, v) == [x \in (DOMAIN s) \cup {k} |-> IF x = k THEN v ELSE s[x]]

\* delete s[k]
del(s, k) == [x \in (DOMAIN s) \ {k} |-> s[x]]

\* mutant of jsonRoundTrip: a key holding null is dropped like one holding undefined
jsonRoundTrip_DropsNull(s) ==
  [k \in { x \in DOMAIN s : ~(x = "data" /\ s[x] \in {"undefined", "null"}) } |->
     IF k = "data" /\ s[k] = "NaN" THEN "null" ELSE s[k]]

\* JSON.parse(JSON.stringify(session)): a key holding undefined is dropped,
\* NaN becomes null; every other value of the model comes back unchanged
JsonValue(k, v) == IF k = "data" /\ v = "NaN" THEN "null" ELSE v

JsonDropped(s) == { k \in DOMAIN s : k = "data" /\ s[k] = "undefined" }

jsonRoundTrip(s) == [k \in (DOMAIN s) \ JsonDropped(s) |-> JsonValue(k, s[k])]

\* a mapping of JSON-representable values
JsonRepresentable(s) == \A k \in DOMAIN s : k = "data" => s[k] \notin {"undefined", "NaN"}

\* ------------------------------------------------------------ state
VARIABLES
  middlewares,   \* this.middlewares: the kinds of the registered middleware, in order
  handlers,      \* this.handlers: [command |-> ..., message |-> ..., action |-> ...], wrappers in order
  errorHandler,  \* this.errorHandler: "null", or "set" by the constructor option or bot.catch
  nsteps,        \* registered scene: this.steps.length
  sessionsFile,  \* sessions.json: id -> session
  memSessions,   \* MemorySessionStore.sessions of session(): id -> session object
  pc,            \* where the messageCreate callback stands
  idx,           \* index of the next middleware / handler of the running loop
  ctx,           \* the Context of the event being processed
  log,           \* history: what ran in this cycle, in order
  scen,          \* history: the events fed to the scene since it was last entered
  io             \* history: the latest direct store call and the mappings last set

vars == << middlewares, handlers, errorHandler, nsteps, sessionsFile, memSessions, pc, idx, ctx, log, scen, io >>

config == << middlewares, handlers, errorHandler, nsteps, io >>

\* ------------------------------------------------------------ stores
\* sessions[id] || {}
orEmpty(sessions, id) == IF has(sessions, id) THEN sessions[id] ELSE EmptySession

\* sessionStore.js readSessions / FileSessionStore._read: JSON.parse of the file
readSessions(file) == file

\* sessionStore.js writeSessions / FileSessionStore._write: JSON.stringify
writeSessions(sessions) == [id \in DOMAIN sessions |-> jsonRoundTrip(sessions[id])]

\* default sessionStore.get(id)
sessionStore_get(file, id) == orEmpty(readSessions(file), id)

\* mutant of sessionStore_set: the session is merged into the stored one
sessionStore_set_Merge(file, id, session) ==
  writeSessions(put(readSessions(file), id,
                    [k \in DOMAIN orEmpty(file, id) \cup DOMAIN session |->
                       IF k \in DOMAIN session THEN session[k] ELSE orEmpty(file, id)[k]]))

\* default sessionStore.set(id, session): the new file
sessionStore_set(file, id, session) == writeSessions(put(readSessions(file), id, session))

\* FileSessionStore.get / set / clear (filePath 'sessions.json', the same file)
FileSessionStore_get(file, id) == orEmpty(readSessions(file), id)

\* mutant of FileSessionStore_set: the file is rewritten with this id alone
FileSessionStore_set_Alone(file, id, session) == writeSessions(put(<< >>, id, session))

FileSessionStore_set(file, id, session) == writeSessions(put(readSessions(file), id, session))

FileSessionStore_clear(file, id) == writeSessions(del(readSessions(file), id))

\* MemorySessionStore.get / set / clear: the object itself is handed out and kept
MemorySessionStore_get(sessions, id) == orEmpty(sessions, id)

MemorySessionStore_set(sessions, id, session) == put(sessions, id, session)

MemorySessionStore_clear(sessions, id) == del(sessions, id)

\* ------------------------------------------------------------ context
\* mutant of Context: the scene-stopped flag of an earlier cycle is carried over
Context_FlagKept(author, chat, content) ==
  [ author |-> author, chat |-> chat, content |-> content, text |-> content,
    session |-> EmptySession, shared |-> FALSE, handled |-> FALSE,
    scene |-> "null", sceneStopped |-> TRUE ]

\* new Context(bot, message, message.channelId)
Context(author, chat, content) ==
  [ author |-> author, chat |-> chat, content |-> content, text |-> content,
    session |-> EmptySession, shared |-> FALSE, handled |-> FALSE,
    scene |-> "null", sceneStopped |-> FALSE ]

NoContext == Context("none", "none", << >>)

Entry(op, i, out) == [op |-> op, i |-> i, out |-> out]

Result(c, thrown, l) == [ctx |-> c, thrown |-> thrown, log |-> l]

\* ctx.session is the very object the memory store holds under ctx.chat.id:
\* what is done to ctx.session is done to the stored object
syncMemory(sessions, c) ==
  IF c.shared THEN MemorySessionStore_set(sessions, c.chat, c.session) ELSE sessions

\* ------------------------------------------------------------ scenes
StepOutcomes == {"advance", "write", "retry", "throw", "leave"}

\* mutant of leave: only the reserved keys are deleted, user data stays
leave_ReservedOnly(c) ==
  [c EXCEPT !.session = del(del(c.session, "__scene"), "step"), !.scene = "null", !.sceneStopped = TRUE]

\* mutant of leave: only __scene is deleted
leave_SceneOnly(c) ==
  [c EXCEPT !.session = del(c.session, "__scene"), !.scene = "null", !.sceneStopped = TRUE]

\* Scene.leave(ctx): every key deleted from the same object
leave(c) == [c EXCEPT !.session = EmptySession, !.scene = "null", !.sceneStopped = TRUE]

\* this.steps[k](ctx) for a step function that behaves as `so` on this event:
\* returns undefined ("advance", "write", "leave"), returns false ("retry") or
\* throws; "jump" is a step that assigns ctx.session.step = 0 and returns
stepFn(c, k, so) ==
  [ ctx |-> CASE so = "write" -> [c EXCEPT !.session = put(c.session, "data", "v1")]
              [] so = "leave" -> leave(c)
              [] so = "jump" -> [c EXCEPT !.session = put(c.session, "step", 0)]
              [] OTHER -> c,
    result |-> IF so = "retry" THEN "false" ELSE "undefined",
    thrown |-> so = "throw",
    log |-> << Entry("step", k, so) >> \o (IF so = "leave" THEN << Entry("leave", k, "step") >> ELSE << >>) ]

\* mutant of handle: the retry signal (result === false) is not looked at
handle_IgnoresRetry(c, so) ==
  LET step == IF has(c.session, "step") THEN c.session["step"] ELSE 0
  IN IF step < nsteps
     THEN LET r == stepFn(c, step, so)
              c2 == [r.ctx EXCEPT !.handled = TRUE]
              adv == has(c2.session, "step") /\ c2.session["step"] = step /\ truthy(c2.text)
          IN IF r.thrown THEN Result(r.ctx, TRUE, r.log)
             ELSE IF adv THEN Result([c2 EXCEPT !.session = put(c2.session, "step", step + 1)], FALSE, r.log)
             ELSE Result(c2, FALSE, r.log)
     ELSE Result([leave(c) EXCEPT !.handled = TRUE], FALSE, << Entry("leave", step, "handle") >>)

\* mutant of handle: ctx.text is not looked at, an event without text advances
handle_IgnoresText(c, so) ==
  LET step == IF has(c.session, "step") THEN c.session["step"] ELSE 0
  IN IF step < nsteps
     THEN LET r == stepFn(c, step, so)
              c2 == [r.ctx EXCEPT !.handled = TRUE]
              adv == /\ has(c2.session, "step")
                     /\ c2.session["step"] = step
                     /\ r.result # "false"
          IN IF r.thrown THEN Result(r.ctx, TRUE, r.log)
             ELSE IF adv THEN Result([c2 EXCEPT !.session = put(c2.session, "step", step + 1)], FALSE, r.log)
             ELSE Result(c2, FALSE, r.log)
     ELSE Result([leave(c) EXCEPT !.handled = TRUE], FALSE, << Entry("leave", step, "handle") >>)

\* mutant of handle: leave is performed as soon as the last step has advanced
handle_LeavesAfterLast(c, so) ==
  LET step == IF has(c.session, "step") THEN c.session["step"] ELSE 0
  IN IF step < nsteps
     THEN LET r == stepFn(c, step, so)
              c2 == [r.ctx EXCEPT !.handled = TRUE]
              adv == /\ has(c2.session, "step")
                     /\ c2.session["step"] = step
                     /\ truthy(c2.text)
                     /\ r.result # "false"
          IN IF r.thrown THEN Result(r.ctx, TRUE, r.log)
             ELSE IF adv /\ step + 1 = nsteps THEN Result(leave(c2), FALSE, r.log)
             ELSE IF adv THEN Result([c2 EXCEPT !.session = put(c2.session, "step", step + 1)], FALSE, r.log)
             ELSE Result(c2, FALSE, r.log)
     ELSE Result([leave(c) EXCEPT !.handled = TRUE], FALSE, << Entry("leave", step, "handle") >>)

\* mutant of handle: an advancing step adds 2 to step
handle_AdvanceByTwo(c, so) ==
  LET step == IF has(c.session, "step") THEN c.session["step"] ELSE 0
  IN IF step < nsteps
     THEN LET r == stepFn(c, step, so)
              c2 == [r.ctx EXCEPT !.handled = TRUE]
              adv == /\ has(c2.session, "step")
                     /\ c2.session["step"] = step
                     /\ truthy(c2.text)
                     /\ r.result # "false"
          IN IF r.thrown THEN Result(r.ctx, TRUE, r.log)
             ELSE IF adv THEN Result([c2 EXCEPT !.session = put(c2.session, "step", step + 2)], FALSE, r.log)
             ELSE Result(c2, FALSE, r.log)
     ELSE Result([leave(c) EXCEPT !.handled = TRUE], FALSE, << Entry("leave", step, "handle") >>)

\* mutant of handle: past the last step nothing is done, leave is not called
handle_StaysAtLast(c, so) ==
  LET step == IF has(c.session, "step") THEN c.session["step"] ELSE 0
  IN IF step < nsteps
     THEN LET r == stepFn(c, step, so)
              c2 == [r.ctx EXCEPT !.handled = TRUE]
              adv == /\ has(c2.session, "step")
                     /\ c2.session["step"] = step
                     /\ truthy(c2.text)
                     /\ r.result # "false"
          IN IF r.thrown THEN Result(r.ctx, TRUE, r.log)
             ELSE IF adv THEN Result([c2 EXCEPT !.session = put(c2.session, "step", step + 1)], FALSE, r.log)
             ELSE Result(c2, FALSE, r.log)
     ELSE Result([c EXCEPT !.handled = TRUE], FALSE, << >>)

\* mutant of handle: `step <= this.steps.length`, one step too many before leave
handle_OffByOne(c, so) ==
  LET step == IF has(c.session, "step") THEN c.session["step"] ELSE 0
  IN IF step <= nsteps
     THEN LET r == stepFn(c, step, so)
              c2 == [r.ctx EXCEPT !.handled = TRUE]
              adv == /\ has(c2.session, "step")
                     /\ c2.session["step"] = step
                     /\ truthy(c2.text)
                     /\ r.result # "false"
          IN IF r.thrown THEN Result(r.ctx, TRUE, r.log)
             ELSE IF adv THEN Result([c2 EXCEPT !.session = put(c2.session, "step", step + 1)], FALSE, r.log)
             ELSE Result(c2, FALSE, r.log)
     ELSE Result([leave(c) EXCEPT !.handled = TRUE], FALSE, << Entry("leave", step, "handle") >>)

\* Scene.handle(ctx)
handle(c, so) ==
  LET step == IF has(c.session, "step") THEN c.session["step"] ELSE 0
  IN IF step < nsteps
     THEN LET r == stepFn(c, step, so)
              c2 == [r.ctx EXCEPT !.handled = TRUE]
              adv == /\ has(c2.session, "step")
                     /\ c2.session["step"] = step
                     /\ truthy(c2.text)
                     /\ r.result # "false"
          IN IF r.thrown THEN Result(r.ctx, TRUE, r.log)
             ELSE IF adv THEN Result([c2 EXCEPT !.session = put(c2.session, "step", step + 1)], FALSE, r.log)
             ELSE Result(c2, FALSE, r.log)
     ELSE Result([leave(c) EXCEPT !.handled = TRUE], FALSE, << Entry("leave", step, "handle") >>)

\* mutant of enter: `ctx.session.step = 0` is left out
enter_KeepsStep(c, so) ==
  handle([c EXCEPT !.session = put(c.session, "__scene", SceneName), !.scene = SceneName], so)

\* Scene.enter(ctx)
enter(c, so) ==
  handle([c EXCEPT !.session = put(put(c.session, "__scene", SceneName), "step", 0),
                   !.scene = SceneName], so)

\* SceneManager.middleware(): the registered scenes are {SceneName}
SceneManager_middleware(c, so) ==
  IF has(c.session, "__scene") /\ c.session["__scene"] = SceneName /\ ~c.sceneStopped
  THEN handle(c, so)
  ELSE Result(c, FALSE, << >>)

\* ------------------------------------------------------------ registries
str(v) == [kind |-> "str", v |-> v]

re(v) == [kind |-> "re", v |-> v]

\* what a user handler does on this event: returns ("ok"), assigns a session key
\* ("write"), throws ("throw") or calls scene.enter(ctx), whose first step does s
FnOutcomes ==
  [h : {"ok", "write", "throw"}, s : {"none"}] \cup [h : {"enter"}, s : StepOutcomes]

\* the user function fn(ctx) of a handler
fn(c, out) ==
  CASE out.h = "write" -> Result([c EXCEPT !.session = put(c.session, "data", "v1")], FALSE, << >>)
    [] out.h = "throw" -> Result(c, TRUE, << >>)
    [] out.h = "enter" -> enter(c, out.s)
    [] OTHER -> Result(c, FALSE, << >>)

\* the test of one pattern in command(): first token against the spec without
\* a leading "/", or the regex against the whole text
commandMatch(cmd, text) ==
  \/ cmd.kind = "str" /\ split0(text) = replaceSlash(cmd.v)
  \/ cmd.kind = "re" /\ test(cmd.v, text)

\* the test of one pattern in hears(): equality, or the regex
hearsMatch(pattern, text) ==
  \/ pattern.kind = "str" /\ text = pattern.v
  \/ pattern.kind = "re" /\ test(pattern.v, text)

\* ctx.payload = interaction.customId: a string, or undefined when the
\* transport's interaction carries none
customId(v) == [defined |-> TRUE, v |-> v]

undefined == [defined |-> FALSE, v |-> << >>]

\* the string RegExp.prototype.test makes of its argument
toString(payload) ==
  IF payload.defined THEN payload.v ELSE << "u", "n", "d", "e", "f", "i", "n", "e", "d" >>

\* the test of one pattern in action(): strict equality, or the regex
actionMatch(pattern, payload) ==
  \/ pattern.kind = "str" /\ payload.defined /\ payload.v = pattern.v
  \/ pattern.kind = "re" /\ test(pattern.v, toString(payload))

\* bot.command(cmds, fn), bot.hears(patterns, fn), bot.action(ids, fn),
\* bot.on(event, fn): the registered wrapper with arr, the pattern list
command(arr) == [type |-> "command", arr |-> arr]

hears(arr) == [type |-> "hears", arr |-> arr]

action(arr) == [type |-> "action", arr |-> arr]

on == [type |-> "on", arr |-> << >>]

\* mutant of invokes: only the first pattern of the list is tested
invokes_FirstPattern(w, c) ==
  CASE w.type = "command" -> truthy(c.text) /\ commandMatch(w.arr[1], c.text)
    [] w.type = "hears" -> truthy(c.text) /\ hearsMatch(w.arr[1], c.text)
    [] w.type = "action" -> actionMatch(w.arr[1], c.payload)
    [] OTHER -> TRUE

\* does the wrapper reach `await fn(ctx)` on this context
invokes(w, c) ==
  CASE w.type = "command" -> truthy(c.text) /\ \E i \in 1..Len(w.arr) : commandMatch(w.arr[i], c.text)
    [] w.type = "hears" -> truthy(c.text) /\ \E i \in 1..Len(w.arr) : hearsMatch(w.arr[i], c.text)
    [] w.type = "action" -> \E i \in 1..Len(w.arr) : actionMatch(w.arr[i], c.payload)
    [] OTHER -> TRUE

\* one registered wrapper run on ctx: fn awaited on the first matching pattern,
\* then ctx.handled = true (command / hears / action); a plain on() handler is fn itself
\* the log has "handler" for the call of the wrapper and reg for the call of fn
wrapper(w, c, out, reg, i) ==
  IF invokes(w, c)
  THEN LET r == fn(c, out)
           l == << Entry("handler", i, reg), Entry(reg, i, out.h) >> \o r.log
       IN IF r.thrown THEN Result(r.ctx, TRUE, l)
          ELSE IF w.type = "on" THEN Result(r.ctx, FALSE, l)
          ELSE Result([r.ctx EXCEPT !.handled = TRUE], FALSE, l)
  ELSE Result(c, FALSE, << Entry("handler", i, reg) >>)

\* what the global error handler, a user function called without try / catch
\* and without await, does when it is given an error: returns ("ok") or throws
ErrorOutcomes(r) == IF r.thrown /\ errorHandler # "null" THEN {"ok", "throw"} ELSE {"none"}

\* catch (err) { if (this.errorHandler) this.errorHandler(err, ctx) else console.error(...) }
\* of a loop of launch or of the interaction callback; an error handler that
\* throws throws out of the catch block
caught(r, where, i, eo) ==
  IF r.thrown
  THEN r.log \o << Entry("error", i, where),
                   Entry(IF errorHandler # "null" THEN "errorHandler" ELSE "console.error", i, where) >>
             \o (IF eo = "throw" THEN << Entry("escaped", i, where) >> ELSE << >>)
  ELSE r.log

\* the error handler threw: the callback's promise rejects where it stands
escaped(r, eo) == r.thrown /\ eo = "throw"

\* ------------------------------------------------------------ history
\* The scenario followed since the scene was last entered from a handler:
\*   e     1 when the entering cycle left step at 1, 0 when it left it at 0
\*   n     the later events of the conversation, each taken by the scene middleware
\*   adv   how many of these ran a step that advanced (text, no retry signal)
\*   last  what the latest of them did: "advance", "retry", "notext", "left"
\* A step that throws or calls leave, or an event the scene middleware does not
\* take, ends the scenario.
NoScenario == [on |-> FALSE, e |-> 0, n |-> 0, adv |-> 0, last |-> "none"]

ops(l, op) == { i \in 1..Len(l) : l[i].op = op }

lastStep(l) == l[CHOOSE i \in ops(l, "step") : \A j \in ops(l, "step") : j <= i]

entersScene(l) == \E i \in 1..Len(l) : l[i].op \in {"command", "message"} /\ l[i].out = "enter"

\* what the step run in this cycle did, as the scenario records it; the text
\* the step saw is the content in the middleware loop (before the prefix is
\* cut) and ctx.text in a handler
did(c, l) ==
  IF ops(l, "step") = {} THEN (IF ops(l, "leave") # {} THEN "left" ELSE "none")
  ELSE IF lastStep(l).out \in {"advance", "write"}
  THEN (IF Len(IF entersScene(l) THEN c.text ELSE c.content) > 0 THEN "advance" ELSE "notext")
  ELSE IF lastStep(l).out = "retry" THEN "retry"
  ELSE "ended"

\* the scenario is followed for one event after the entry, and further while
\* every step since the entry has advanced, until the engine leaves the scene
follows(s) == s.last # "left" /\ (s.n = 0 \/ (s.e = 1 /\ s.adv = s.n))

fed(s, c, l) ==
  LET d == did(c, l)
  IN IF ops(l, "bot") # {} THEN s
     ELSE IF entersScene(l)
     THEN IF d \in {"advance", "retry", "notext"}
          THEN [on |-> TRUE, e |-> IF d = "advance" THEN 1 ELSE 0, n |-> 0, adv |-> 0, last |-> d]
          ELSE NoScenario
     ELSE IF s.on /\ follows(s) /\ d \in {"advance", "retry", "notext", "left"}
     THEN [s EXCEPT !.n = s.n + 1, !.adv = IF d = "advance" THEN s.adv + 1 ELSE s.adv, !.last = d]
     ELSE NoScenario

NoIo == [op |-> "none", store |-> "none", id |-> "none", session |-> EmptySession,
         memory |-> << >>, file |-> << >>]

\* ------------------------------------------------------------ configuration
MiddlewareKinds == {"session_memory", "session_file", "scene", "user"}

\* tests/example.js: command('echo'), command(/test.*/): overlapping specs
OverlappingCommands == << command(<< str(<< "a" >>) >>), command(<< re(<< "a" >>) >>) >>

\* a command whose spec no content of the model matches
UnmatchedCommands == << command(<< str(<< "a", "a", "a", "a" >>) >>) >>

\* tests/example.js: command('/photo'), and a plain on('command') listener
PrefixedCommands == << command(<< str(<< "/", "a" >>) >>), on >>

\* tests/example.js: hears('ping'), hears(/\d{4}/), on('message'): overlapping specs
OverlappingMessages == << hears(<< str(<< "a" >>) >>), hears(<< re(<< "a" >>) >>), on >>

\* on('message') registered first, then a hears() with a list spec
ListMessages == << on, hears(<< str(<< "a", " " >>), re(<< >>) >>) >>

\* the programs checked: tests/example.js wires session() then the scene
\* middleware; the others drop session(), use the file store, or add a middleware
\* tests/example.js sets an error handler with bot.catch; without one the
\* errors go to console.error
Programs ==
  { [mw |-> << "session_memory", "scene" >>, command |-> OverlappingCommands, message |-> OverlappingMessages,
     errorHandler |-> "set"],
    [mw |-> << "scene" >>, command |-> UnmatchedCommands, message |-> OverlappingMessages,
     errorHandler |-> "null"],
    [mw |-> << "session_file", "scene" >>, command |-> PrefixedCommands, message |-> ListMessages,
     errorHandler |-> "null"],
    [mw |-> << "user", "scene" >>, command |-> OverlappingCommands, message |-> ListMessages,
     errorHandler |-> "set"] }

Init ==
  /\ \E p \in Programs :
       /\ middlewares = p.mw
       /\ handlers = [command |-> p.command, message |-> p.message, action |-> << >>]
       /\ errorHandler = p.errorHandler
  /\ nsteps \in StepCounts
  /\ sessionsFile = << >>
  /\ memSessions = << >>
  /\ pc = "idle"
  /\ idx = 0
  /\ ctx = NoContext
  /\ log = << >>
  /\ scen = NoScenario
  /\ io = NoIo

\* ------------------------------------------------------------ messageCreate
\* mutant of Receive: the bot guard stands after the Context and the session load
Receive_GuardAfterLoad(author, chat, bot, content) ==
  /\ pc = "idle"
  /\ ctx' = [Context(author, chat, content) EXCEPT
               !.session = sessionStore_get(sessionsFile, author)]
  /\ IF bot
     THEN /\ pc' = "done"
          /\ log' = << Entry("bot", 0, "return") >>
          /\ UNCHANGED idx
     ELSE /\ pc' = "mw"
          /\ idx' = 1
          /\ log' = << >>
  /\ UNCHANGED << config, sessionsFile, memSessions, scen >>

\* client.on('messageCreate'): the bot guard, the Context, the session load
Receive(author, chat, bot, content) ==
  /\ pc = "idle"
  /\ IF bot
     THEN /\ pc' = "done"
          /\ log' = << Entry("bot", 0, "return") >>
          /\ UNCHANGED << idx, ctx >>
     ELSE /\ ctx' = [Context(author, chat, content) EXCEPT
                       !.session = sessionStore_get(sessionsFile, author)]
          /\ pc' = "mw"
          /\ idx' = 1
          /\ log' = << >>
  /\ UNCHANGED << config, sessionsFile, memSessions, scen >>

\* session(): ctx.session = await store.get(chatId); await next(); store.set(chatId, ctx.session)
session(c, type) ==
  IF type = "session_memory"
  THEN [c EXCEPT !.session = MemorySessionStore_get(memSessions, c.chat), !.shared = TRUE]
  ELSE [c EXCEPT !.session = FileSessionStore_get(sessionsFile, c.chat), !.shared = FALSE]

\* a user middleware that behaves as `out` on this event
userMiddleware(c, out) ==
  CASE out = "write" -> Result([c EXCEPT !.session = put(c.session, "data", "v1")], FALSE, << >>)
    [] out = "throw" -> Result(c, TRUE, << >>)
    [] OTHER -> Result(c, FALSE, << >>)

\* the callback goes on, or ends here when the error handler threw: nothing
\* after the catch block runs, the session is not written
Rejects(thrown) ==
  IF thrown
  THEN pc' = "done" /\ scen' = fed(scen, ctx', log')
  ELSE UNCHANGED << pc, scen >>

\* one turn of `for (const mw of this.middlewares)`, with its try / catch
Middleware ==
  /\ pc = "mw"
  /\ idx <= Len(middlewares)
  /\ LET kind == middlewares[idx]
         ran == << Entry("middleware", idx, kind) >>
     IN CASE kind \in {"session_memory", "session_file"} ->
               /\ ctx' = session(ctx, kind)
               /\ log' = log \o ran
               /\ IF kind = "session_memory"
                  THEN /\ memSessions' = MemorySessionStore_set(memSessions, ctx.chat, ctx'.session)
                       /\ UNCHANGED sessionsFile
                  ELSE /\ sessionsFile' = FileSessionStore_set(sessionsFile, ctx.chat, ctx'.session)
                       /\ UNCHANGED memSessions
               /\ UNCHANGED << pc, scen >>
          [] kind = "scene" ->
               \E so \in StepOutcomes :
                 LET r == SceneManager_middleware(ctx, so)
                 IN \E eo \in ErrorOutcomes(r) :
                      /\ ctx' = r.ctx
                      /\ log' = log \o ran \o caught(r, "middleware", idx, eo)
                      /\ memSessions' = syncMemory(memSessions, r.ctx)
                      /\ Rejects(escaped(r, eo))
                      /\ UNCHANGED sessionsFile
          [] OTHER ->
               \E out \in {"ok", "write", "throw"} :
                 LET r == userMiddleware(ctx, out)
                 IN \E eo \in ErrorOutcomes(r) :
                      /\ ctx' = r.ctx
                      /\ log' = log \o ran \o caught(r, "middleware", idx, eo)
                      /\ memSessions' = syncMemory(memSessions, r.ctx)
                      /\ Rejects(escaped(r, eo))
                      /\ UNCHANGED sessionsFile
  /\ idx' = idx + 1
  /\ UNCHANGED config

\* mutant of isCommand: every non-empty content is taken for a command
isCommand_AnyText(content) == Len(content) > 0

\* message.content.startsWith('/') || message.content.startsWith('!')
isCommand(content) == startsWith(content, "/") \/ startsWith(content, "!")

\* the text launch routes on: the content without its prefix for a command
routedText(content) == IF isCommand(content) THEN slice1(content) ELSE content

\* after the middleware loop: the command branch with ctx.text = content.slice(1),
\* or straight to the message branch
Route ==
  /\ pc = "mw"
  /\ idx > Len(middlewares)
  /\ IF isCommand(ctx.content)
     THEN /\ ctx' = [ctx EXCEPT !.text = slice1(ctx.content)]
          /\ pc' = "command"
     ELSE /\ ctx' = ctx
          /\ pc' = "message"
  /\ idx' = 1
  /\ UNCHANGED << config, sessionsFile, memSessions, log, scen >>

\* `if (ctx.handled) break` at the head of the command loop
commandLoop(c, i) == i <= Len(handlers.command) /\ ~c.handled

\* mutant of messageLoop: the message loop runs whatever ctx.handled is
messageLoop_Always(c, i) == i <= Len(handlers.message)

\* `if (!ctx.handled)` around the message loop and `if (ctx.handled) break` in it
messageLoop(c, i) == i <= Len(handlers.message) /\ ~c.handled

\* one turn of `for (const handler of this.handlers.command)`, or its end
CommandHandlers ==
  /\ pc = "command"
  /\ IF commandLoop(ctx, idx)
     THEN \E out \in FnOutcomes :
            LET r == wrapper(handlers.command[idx], ctx, out, "command", idx)
            IN \E eo \in ErrorOutcomes(r) :
                 /\ ctx' = r.ctx
                 /\ log' = log \o caught(r, "command", idx, eo)
                 /\ memSessions' = syncMemory(memSessions, r.ctx)
                 /\ idx' = idx + 1
                 /\ Rejects(escaped(r, eo))
     ELSE /\ pc' = "message"
          /\ idx' = 1
          /\ UNCHANGED << ctx, log, memSessions, scen >>
  /\ UNCHANGED << config, sessionsFile >>

\* one turn of `for (const handler of this.handlers.message)`, or its end
MessageHandlers ==
  /\ pc = "message"
  /\ IF messageLoop(ctx, idx)
     THEN \E out \in FnOutcomes :
            LET r == wrapper(handlers.message[idx], ctx, out, "message", idx)
            IN \E eo \in ErrorOutcomes(r) :
                 /\ ctx' = r.ctx
                 /\ log' = log \o caught(r, "message", idx, eo)
                 /\ memSessions' = syncMemory(memSessions, r.ctx)
                 /\ idx' = idx + 1
                 /\ Rejects(escaped(r, eo))
     ELSE /\ pc' = "persist"
          /\ idx' = 0
          /\ UNCHANGED << ctx, log, memSessions, scen >>
  /\ UNCHANGED << config, sessionsFile >>

\* `if (!ctx.handled && !ctx.session.__scene && ctx.text) return`
earlyReturn(c) == ~c.handled /\ ~has(c.session, "__scene") /\ truthy(c.text)

\* the end of the callback: the early return, or sessionStore.set(author.id, ctx.session)
Persist ==
  /\ pc = "persist"
  /\ IF earlyReturn(ctx)
     THEN UNCHANGED << sessionsFile, log >>
     ELSE /\ sessionsFile' = sessionStore_set(sessionsFile, ctx.author, ctx.session)
          /\ log' = log \o << Entry("persist", 0, ctx.author) >>
  /\ pc' = "done"
  /\ scen' = fed(scen, ctx, log)
  /\ UNCHANGED << config, memSessions, idx, ctx >>

\* the callback has returned: its Context is garbage
Discard ==
  /\ pc = "done"
  /\ pc' = "idle"
  /\ idx' = 0
  /\ ctx' = NoContext
  /\ log' = << >>
  /\ UNCHANGED << config, sessionsFile, memSessions, scen >>

Next ==
  \/ \E author \in Users, chat \in Channels, bot \in BOOLEAN, content \in Contents :
       Receive(author, chat, bot, content)
  \/ Middleware
  \/ Route
  \/ CommandHandlers
  \/ MessageHandlers
  \/ Persist
  \/ Discard

Spec == Init /\ [][Next]_vars

\* ------------------------------------------------------------ the scene engine alone
\* enter, handle and leave called directly, in any order, on the Context of
\* one conversation; each new event brings a new Context with the same session.
SceneCall(r, name) ==
  /\ pc = "scene"
  /\ ctx' = r.ctx
  /\ log' = << Entry("call", Cardinality(DOMAIN ctx.session), name) >> \o r.log
  /\ memSessions' = syncMemory(memSessions, r.ctx)
  /\ UNCHANGED << config, sessionsFile, pc, idx, scen >>

CallEnter == \E so \in StepOutcomes : SceneCall(enter(ctx, so), "enter")

CallHandle == \E so \in StepOutcomes : SceneCall(handle(ctx, so), "handle")

CallLeave == SceneCall(Result(leave(ctx), FALSE, << >>), "leave")

NewEvent(content) ==
  /\ pc = "scene"
  /\ ctx' = [Context(ctx.author, ctx.chat, content) EXCEPT
               !.session = ctx.session, !.shared = ctx.shared]
  /\ log' = << >>
  /\ UNCHANGED << config, sessionsFile, memSessions, pc, idx, scen >>

NextScene ==
  \/ CallEnter
  \/ CallHandle
  \/ CallLeave
  \/ \E content \in Contents : NewEvent(content)

\* any session contents, any scene name, any step value
\* ("absent" and -1 stand for a key the session does not hold)
SessionOf(name, step, data) ==
  LET a == IF name = "absent" THEN EmptySession ELSE put(EmptySession, "__scene", name)
      b == IF step < 0 THEN a ELSE put(a, "step", step)
  IN IF data = "absent" THEN b ELSE put(b, "data", data)

AnySessions ==
  { SessionOf(name, step, data) :
      name \in {"absent", "reg", "other"}, step \in -1..(MaxSteps + 1), data \in {"absent", "v1"} }

InitEngine(sessions) ==
  /\ middlewares = << "session_memory", "scene" >>
  /\ handlers = [command |-> OverlappingCommands, message |-> OverlappingMessages, action |-> << >>]
  /\ errorHandler = "null"
  /\ nsteps \in StepCounts
  /\ sessionsFile = << >>
  /\ pc = "scene"
  /\ idx = 0
  /\ \E s \in sessions, shared \in BOOLEAN, scene \in {"null", SceneName} :
       /\ ctx = [Context("u1", "c1", << "a" >>) EXCEPT !.session = s, !.shared = shared, !.scene = scene]
       /\ memSessions = IF shared THEN [id \in {"c1"} |-> s] ELSE << >>
  /\ log = << >>
  /\ scen = NoScenario
  /\ io = NoIo

\* from an empty session
InitScene == InitEngine({EmptySession})

SpecScene == InitScene /\ [][NextScene]_vars

\* from any session
InitLeave == InitEngine(AnySessions)

SpecLeave == InitLeave /\ [][NextScene]_vars

\* the scene engine with a step that jumps: from any session, the calls of
\* SpecLeave and handle on a step that assigns ctx.session.step itself
CallJump == SceneCall(handle(ctx, "jump"), "handle")

NextHandle ==
  \/ CallEnter
  \/ CallHandle
  \/ CallJump
  \/ CallLeave
  \/ \E content \in Contents : NewEvent(content)

SpecHandle == InitLeave /\ [][NextHandle]_vars

\* the events of one conversation, each given to the scene middleware on a new
\* Context holding the conversation's session; a handler enters the scene
\* when the middleware lets an event through. Steps throw or signal retry
\* MaxFailures times in all (idx counts them), so that from some point on they
\* do not; scen.n counts the text-bearing events the scene has taken since the
\* entry or the latest such failure.
Failing(so) == so \in {"retry", "throw"}

\* one event taken by client.on('messageCreate') up to the end of the scene middleware
SceneEvent(content, so) ==
  /\ pc = "scene"
  /\ Failing(so) => idx < MaxFailures
  /\ LET c == [Context(ctx.author, ctx.chat, content) EXCEPT
                 !.session = ctx.session, !.shared = ctx.shared]
         r == SceneManager_middleware(c, so)
         took == r.log # << >>
     IN /\ ctx' = r.ctx
        /\ log' = << Entry("call", Cardinality(DOMAIN ctx.session), "middleware") >> \o r.log
        /\ memSessions' = syncMemory(memSessions, r.ctx)
        /\ idx' = IF took /\ ops(r.log, "step") # {} /\ Failing(so) THEN idx + 1 ELSE idx
        /\ scen' = [scen EXCEPT !.n = IF ~took THEN 0
                                      ELSE IF ops(r.log, "step") # {} /\ Failing(so) THEN 0
                                      ELSE IF truthy(content) THEN scen.n + 1
                                      ELSE scen.n]
  /\ UNCHANGED << config, sessionsFile, pc >>

\* an event the scene middleware let through reaches a handler that calls enter
Reenter(content, so) ==
  /\ pc = "scene"
  /\ ~has(ctx.session, "__scene")
  /\ Failing(so) => idx < MaxFailures
  /\ LET c == [Context(ctx.author, ctx.chat, content) EXCEPT
                 !.session = ctx.session, !.shared = ctx.shared]
         r == enter(c, so)
     IN /\ ctx' = r.ctx
        /\ log' = << Entry("call", Cardinality(DOMAIN ctx.session), "enter") >> \o r.log
        /\ memSessions' = syncMemory(memSessions, r.ctx)
  /\ idx' = IF Failing(so) THEN idx + 1 ELSE idx
  /\ scen' = [scen EXCEPT !.n = 0]
  /\ UNCHANGED << config, sessionsFile, pc >>

\* a text-bearing event of the conversation arrives
TextEvent == \E content \in Contents \ {<< >>}, so \in StepOutcomes : SceneEvent(content, so)

NextComplete ==
  \/ \E content \in Contents, so \in StepOutcomes : SceneEvent(content, so)
  \/ \E content \in Contents \ {<< >>}, so \in StepOutcomes : Reenter(content, so)

\* text-bearing events keep arriving
SpecComplete == InitScene /\ [][NextComplete]_vars /\ WF_vars(TextEvent)

\* ------------------------------------------------------------ the stores alone
Stores == {"MemorySessionStore", "FileSessionStore", "sessionStore"}

Ids == Users \cup Channels

\* the mappings handed to set: JSON-representable ones, and ones holding
\* undefined or NaN
StoreSessions ==
  { EmptySession, [__scene |-> SceneName, step |-> 0], [__scene |-> SceneName, step |-> 0, data |-> "v1"] }
    \cup { [data |-> v] : v \in {"v1", "null", "undefined", "NaN"} }

StoreSet(store, id, M) ==
  /\ pc = "store"
  /\ IF store = "MemorySessionStore"
     THEN /\ memSessions' = MemorySessionStore_set(memSessions, id, M)
          /\ io' = [io EXCEPT !.op = "set", !.store = store, !.id = id, !.session = M,
                              !.memory = put(io.memory, id, M)]
          /\ UNCHANGED sessionsFile
     ELSE /\ sessionsFile' = IF store = "FileSessionStore"
                             THEN FileSessionStore_set(sessionsFile, id, M)
                             ELSE sessionStore_set(sessionsFile, id, M)
          /\ io' = [io EXCEPT !.op = "set", !.store = store, !.id = id, !.session = M,
                              !.file = put(io.file, id, M)]
          /\ UNCHANGED memSessions
  /\ UNCHANGED << middlewares, handlers, errorHandler, nsteps, pc, idx, ctx, log, scen >>

StoreGet(store, id) ==
  /\ pc = "store"
  /\ io' = [io EXCEPT !.op = "get", !.store = store, !.id = id,
                      !.session = CASE store = "MemorySessionStore" -> MemorySessionStore_get(memSessions, id)
                                    [] store = "FileSessionStore" -> FileSessionStore_get(sessionsFile, id)
                                    [] OTHER -> sessionStore_get(sessionsFile, id)]
  /\ UNCHANGED << middlewares, handlers, errorHandler, nsteps, sessionsFile, memSessions, pc, idx, ctx, log, scen >>

\* clear(id): MemorySessionStore and FileSessionStore have it, the default store has not
StoreClear(store, id) ==
  /\ pc = "store"
  /\ store # "sessionStore"
  /\ IF store = "MemorySessionStore"
     THEN /\ memSessions' = MemorySessionStore_clear(memSessions, id)
          /\ io' = [io EXCEPT !.op = "clear", !.store = store, !.id = id, !.session = EmptySession,
                              !.memory = del(io.memory, id)]
          /\ UNCHANGED sessionsFile
     ELSE /\ sessionsFile' = FileSessionStore_clear(sessionsFile, id)
          /\ io' = [io EXCEPT !.op = "clear", !.store = store, !.id = id, !.session = EmptySession,
                              !.file = del(io.file, id)]
          /\ UNCHANGED memSessions
  /\ UNCHANGED << middlewares, handlers, errorHandler, nsteps, pc, idx, ctx, log, scen >>

NextStore ==
  \/ \E store \in Stores, id \in Ids, M \in StoreSessions : StoreSet(store, id, M)
  \/ \E store \in Stores, id \in Ids : StoreGet(store, id)
  \/ \E store \in Stores, id \in Ids : StoreClear(store, id)

InitStore ==
  /\ middlewares = << >>
  /\ handlers = [command |-> << >>, message |-> << >>, action |-> << >>]
  /\ errorHandler = "null"
  /\ nsteps = MaxSteps
  /\ sessionsFile = << >>
  /\ memSessions = << >>
  /\ pc = "store"
  /\ idx = 0
  /\ ctx = NoContext
  /\ log = << >>
  /\ scen = NoScenario
  /\ io = NoIo

SpecStore == InitStore /\ [][NextStore]_vars

\* ------------------------------------------------------------ interactionCreate
\* mutant of ButtonContext: the session stored for the channel is loaded
ButtonContext_Loaded(chat, payload) ==
  [ author |-> "none", chat |-> chat, content |-> << >>, text |-> << >>,
    session |-> MemorySessionStore_get(memSessions, chat), shared |-> TRUE, handled |-> FALSE,
    scene |-> "null", sceneStopped |-> FALSE, payload |-> payload ]

\* new Context(this, interaction, interaction.channelId); ctx.payload = customId:
\* an interaction has no content, the session is the constructor's {}
ButtonContext(chat, payload) ==
  [ author |-> "none", chat |-> chat, content |-> << >>, text |-> << >>,
    session |-> EmptySession, shared |-> FALSE, handled |-> FALSE,
    scene |-> "null", sceneStopped |-> FALSE, payload |-> payload ]

Payloads == {undefined} \cup { customId(v) : v \in Contents }

\* client.on('interactionCreate'): the isButton guard, the Context
Interaction(isButton, chat, payload) ==
  /\ pc = "idle"
  /\ IF isButton
     THEN /\ ctx' = ButtonContext(chat, payload)
          /\ pc' = "action"
          /\ idx' = 1
          /\ log' = << >>
     ELSE /\ pc' = "done"
          /\ log' = << Entry("notButton", 0, "return") >>
          /\ UNCHANGED << idx, ctx >>
  /\ UNCHANGED << config, sessionsFile, memSessions, scen >>

\* one turn of `for (const handler of this.handlers.action)`, with its
\* try / catch and no test of ctx.handled, or its end
ActionHandlers ==
  /\ pc = "action"
  /\ IF idx <= Len(handlers.action)
     THEN \E out \in FnOutcomes :
            LET r == wrapper(handlers.action[idx], ctx, out, "action", idx)
            IN \E eo \in ErrorOutcomes(r) :
                 /\ ctx' = r.ctx
                 /\ log' = log \o caught(r, "action", idx, eo)
                 /\ idx' = idx + 1
                 /\ pc' = IF escaped(r, eo) THEN "done" ELSE pc
     ELSE /\ pc' = "ack"
          /\ idx' = 0
          /\ UNCHANGED << ctx, log >>
  /\ UNCHANGED << config, sessionsFile, memSessions, scen >>

\* try { await interaction.deferUpdate() } catch {}: the acknowledgement
\* succeeds, or fails (already acknowledged by a handler's reply) and is swallowed
Acknowledge ==
  /\ pc = "ack"
  /\ \E result \in {"ok", "throw"} :
       log' = log \o << Entry("deferUpdate", 0, result) >>
  /\ pc' = "done"
  /\ UNCHANGED << config, sessionsFile, memSessions, idx, ctx, scen >>

NextInteraction ==
  \/ \E isButton \in BOOLEAN, chat \in Channels, payload \in Payloads :
       Interaction(isButton, chat, payload)
  \/ ActionHandlers
  \/ Acknowledge
  \/ Discard

\* README "Handling Actions": action(['A', 'B']), here with two elements that
\* both match "a"
ListActions == << action(<< str(<< "a" >>), re(<< "a" >>) >>) >>

\* tests/example.js: action('EXACT_ACTION'), action(/REGEX_.*/), action([...]),
\* overlapping, and a plain on('action') listener
OverlappingActions ==
  << action(<< str(<< "a" >>) >>), action(<< re(<< "a" >>) >>), on,
     action(<< str(<< " " >>), str(<< "a" >>) >>) >>

\* specs that accept the empty string
EmptyActions == << action(<< str(<< >>) >>), action(<< re(<< >>) >>) >>

ActionPrograms == {ListActions, OverlappingActions, EmptyActions}

\* the sessions the stores hold when the interactions arrive
InitInteraction ==
  /\ middlewares = << "session_memory", "scene" >>
  /\ \E p \in ActionPrograms :
       handlers = [command |-> << >>, message |-> << >>, action |-> p]
  /\ errorHandler \in {"null", "set"}
  /\ nsteps = MaxSteps
  /\ \E s \in {EmptySession, [__scene |-> SceneName, step |-> 1]} :
       /\ sessionsFile = [id \in Users |-> s]
       /\ memSessions = [id \in Channels |-> s]
  /\ pc = "idle"
  /\ idx = 0
  /\ ctx = NoContext
  /\ log = << >>
  /\ scen = NoScenario
  /\ io = NoIo

SpecInteraction == InitInteraction /\ [][NextInteraction]_vars

\* ------------------------------------------------------------ the matchers alone
\* one registered command(), hears() or action() wrapper, with any pattern list
\* of the bounded set, called on any input: the command wrapper on the text
\* launch makes of a prefixed content, the hears wrapper on the text of a
\* message, the action wrapper on the payload of an interaction.
Patterns == { str(v) : v \in Contents } \cup { re(v) : v \in Contents }

PatternLists == { << p >> : p \in Patterns } \cup { << p, q >> : p \in Patterns, q \in Patterns }

Registrations ==
  { command(arr) : arr \in PatternLists } \cup { hears(arr) : arr \in PatternLists }
    \cup { action(arr) : arr \in PatternLists }

\* the registry a wrapper is pushed to
registryOf(w) == IF w.type = "command" THEN "command" ELSE IF w.type = "hears" THEN "message" ELSE "action"

Registered(reg, w) == IF registryOf(w) = reg THEN << w >> ELSE << >>

InitMatch ==
  /\ middlewares = << >>
  /\ \E w \in Registrations :
       handlers = [command |-> Registered("command", w), message |-> Registered("message", w),
                   action |-> Registered("action", w)]
  /\ errorHandler = "null"
  /\ nsteps = MaxSteps
  /\ sessionsFile = << >>
  /\ memSessions = << >>
  /\ pc = "match"
  /\ idx = 0
  /\ ctx = NoContext
  /\ log = << >>
  /\ scen = NoScenario
  /\ io = NoIo

\* the wrapper called once on a Context, its function returning
Match(reg, c) ==
  /\ pc = "match"
  /\ Len(handlers[reg]) = 1
  /\ LET r == wrapper(handlers[reg][1], c, [h |-> "ok", s |-> "none"], reg, 1)
     IN /\ ctx' = r.ctx
        /\ log' = r.log
  /\ UNCHANGED << config, sessionsFile, memSessions, pc, idx, scen >>

MatchCommand(content) ==
  /\ isCommand(content)
  /\ Match("command", [Context("u1", "c1", content) EXCEPT !.text = slice1(content)])

MatchHears(content) == Match("message", Context("u1", "c1", content))

MatchAction(payload) == Match("action", ButtonContext("c1", payload))

NextMatch ==
  \/ \E content \in Contents : MatchCommand(content)
  \/ \E content \in Contents : MatchHears(content)
  \/ \E payload \in Payloads : MatchAction(payload)

SpecMatch == InitMatch /\ [][NextMatch]_vars

\* ------------------------------------------------------------ two users
\* tests/example.js (bot.use(session()), bot.use(sceneManager.middleware()),
\* handlers that enter the scene) with two users writing in one channel
Members == {"u1", "u2"}

\* tests/example.js: hears(['register', ...], ctx => registrationScene.enter(ctx))
EnteringMessages == << hears(<< str(<< "a" >>) >>) >>

InitUsers ==
  /\ middlewares = << "session_memory", "scene" >>
  /\ handlers = [command |-> UnmatchedCommands, message |-> EnteringMessages, action |-> << >>]
  /\ errorHandler = "null"
  /\ nsteps = MaxSteps
  /\ sessionsFile = << >>
  /\ memSessions = << >>
  /\ pc = "idle"
  /\ idx = 0
  /\ ctx = NoContext
  /\ log = << >>
  /\ scen = NoScenario
  /\ io = NoIo

NextUsers ==
  \/ \E author \in Members, chat \in Channels, content \in Contents :
       Receive(author, chat, FALSE, content)
  \/ Middleware
  \/ Route
  \/ CommandHandlers
  \/ MessageHandlers
  \/ Persist
  \/ Discard

SpecUsers == InitUsers /\ [][NextUsers]_vars

\* ------------------------------------------------------------ the handler loops, await by await
\* The two loops of launch with the call of a handler and the settling of
\* the promise it returns as separate steps: "invoke" is `handler(ctx)`
\* called, "settled" the end of `await handler(ctx)`.
\* the handlers called whose promise has not settled
pending(l) ==
  { k \in ops(l, "invoke") :
      ~\E m \in ops(l, "settled") : m > k /\ l[m].i = l[k].i /\ l[m].out = l[k].out }

\* mutant of await: the loop goes on without waiting (fan-out)
await_FanOut(l) == TRUE

\* `await handler(ctx)`: the loop resumes when the handler's promise has settled
await(l) == pending(l) = {}

\* the registry whose loop is running
looping == IF pc = "awaitCommand" THEN "command" ELSE "message"

\* the event reaches the handler loops: the command loop for a prefixed
\* content, with the text cut, the message loop otherwise
Start(content) ==
  /\ pc = "idle"
  /\ ctx' = [Context("u1", "c1", content) EXCEPT !.text = routedText(content)]
  /\ pc' = IF isCommand(content) THEN "awaitCommand" ELSE "awaitMessage"
  /\ idx' = 1
  /\ log' = << >>
  /\ UNCHANGED << config, sessionsFile, memSessions, scen >>

\* `if (ctx.handled) break`, then `handler(ctx)` is called
Invoke ==
  /\ pc \in {"awaitCommand", "awaitMessage"}
  /\ await(log)
  /\ idx <= Len(handlers[looping]) /\ ~ctx.handled
  /\ log' = log \o << Entry("invoke", idx, looping) >>
  /\ idx' = idx + 1
  /\ UNCHANGED << config, sessionsFile, memSessions, pc, ctx, scen >>

\* the promise of a called handler settles: the wrapper has run to its end
\* on ctx, or thrown into the catch block of the loop
Settle ==
  /\ pc \in {"awaitCommand", "awaitMessage"}
  /\ \E k \in pending(log) : \E out \in FnOutcomes :
       LET r == wrapper(handlers[looping][log[k].i], ctx, out, looping, log[k].i)
       IN /\ ctx' = r.ctx
          /\ log' = log \o caught(r, looping, log[k].i, "none") \o << Entry("settled", log[k].i, looping) >>
  /\ UNCHANGED << config, sessionsFile, memSessions, pc, idx, scen >>

\* the loop is left: on to the message loop if ctx.handled is not set, or to the end
LoopEnd ==
  /\ pc \in {"awaitCommand", "awaitMessage"}
  /\ await(log)
  /\ idx > Len(handlers[looping]) \/ ctx.handled
  /\ pc' = IF pc = "awaitCommand" /\ ~ctx.handled THEN "awaitMessage" ELSE "done"
  /\ idx' = 1
  /\ UNCHANGED << config, sessionsFile, memSessions, ctx, log, scen >>

NextAwait ==
  \/ \E content \in Contents : Start(content)
  \/ Invoke
  \/ Settle
  \/ LoopEnd
  \/ Discard

SpecAwait == Init /\ [][NextAwait]_vars

\* ------------------------------------------------------------ two cycles of one conversation
\* The messageCreate callbacks of two events of one author, without
\* middleware: each is suspended at its awaits (the session load, the handler,
\* the session write) and the other one runs meanwhile. pc, ctx and io are
\* per event here; io holds the session the load returned.
Events == 1..2

\* what the hears handler of the event does: returns, assigns a session key,
\* or enters the scene, whose first step advances
RaceOutcomes ==
  { [h |-> "ok", s |-> "none"], [h |-> "write", s |-> "none"], [h |-> "enter", s |-> "advance"] }

InitRace ==
  /\ middlewares = << >>
  /\ handlers = [command |-> UnmatchedCommands, message |-> EnteringMessages, action |-> << >>]
  /\ errorHandler = "null"
  /\ nsteps = MaxSteps
  /\ sessionsFile = << >>
  /\ memSessions = << >>
  /\ pc = [e \in Events |-> "idle"]
  /\ idx = 0
  /\ ctx = [e \in Events |-> NoContext]
  /\ log = << >>
  /\ scen = NoScenario
  /\ io = [e \in Events |-> NoIo]

\* new Context, ctx.session = (await this.sessionStore.get(author.id)) || {}
RaceLoad(e, content) ==
  /\ pc[e] = "idle"
  /\ ctx' = [ctx EXCEPT ![e] = [Context("u1", "c1", content) EXCEPT
                                  !.session = sessionStore_get(sessionsFile, "u1")]]
  /\ io' = [io EXCEPT ![e] = [NoIo EXCEPT !.op = "get", !.store = "sessionStore", !.id = "u1",
                                         !.session = sessionStore_get(sessionsFile, "u1")]]
  /\ pc' = [pc EXCEPT ![e] = "message"]
  /\ log' = log \o << Entry("load", e, "u1") >>
  /\ UNCHANGED << middlewares, handlers, errorHandler, nsteps, sessionsFile, memSessions, idx, scen >>

\* await handler(ctx) for the hears handler of the message registry
RaceHandle(e) ==
  /\ pc[e] = "message"
  /\ \E out \in RaceOutcomes :
       LET r == wrapper(handlers.message[1], ctx[e], out, "message", 1)
       IN /\ ctx' = [ctx EXCEPT ![e] = r.ctx]
          /\ log' = log \o << Entry("fn", e, IF invokes(handlers.message[1], ctx[e]) THEN out.h ELSE "none") >>
  /\ pc' = [pc EXCEPT ![e] = "persist"]
  /\ UNCHANGED << config, sessionsFile, memSessions, idx, scen >>

\* the early return, or await this.sessionStore.set(author.id, ctx.session)
RacePersist(e) ==
  /\ pc[e] = "persist"
  /\ IF earlyReturn(ctx[e])
     THEN /\ log' = log \o << Entry("return", e, "early") >>
          /\ UNCHANGED sessionsFile
     ELSE /\ sessionsFile' = sessionStore_set(sessionsFile, "u1", ctx[e].session)
          /\ log' = log \o << Entry("persist", e, "u1") >>
  /\ pc' = [pc EXCEPT ![e] = "done"]
  /\ UNCHANGED << config, memSessions, idx, ctx, scen >>

\* both callbacks have returned
RaceDiscard ==
  /\ \A e \in Events : pc[e] = "done"
  /\ pc' = [e \in Events |-> "idle"]
  /\ ctx' = [e \in Events |-> NoContext]
  /\ io' = [e \in Events |-> NoIo]
  /\ log' = << >>
  /\ UNCHANGED << middlewares, handlers, errorHandler, nsteps, sessionsFile, memSessions, idx, scen >>

NextRace ==
  \/ \E e \in Events, content \in Contents : RaceLoad(e, content)
  \/ \E e \in Events : RaceHandle(e)
  \/ \E e \in Events : RacePersist(e)
  \/ RaceDiscard

SpecRace == InitRace /\ [][NextRace]_vars

\* ------------------------------------------------------------ reading the log
\* the cycle of a processed (non-bot) event has run to its end
CycleEnd == pc = "done" /\ ops(log, "bot") = {}

\* the wrapper i of registry reg was called in this cycle
called(reg, i) == \E k \in ops(log, "handler") : log[k].i = i /\ log[k].out = reg

\* the user function of handler i of registry reg was invoked in this cycle
invoked(reg, i) == \E k \in ops(log, reg) : log[k].i = i

\* an error of handler i of registry reg was caught in this cycle
failed(reg, i) == \E k \in ops(log, "error") : log[k].i = i /\ log[k].out = reg

\* the raw content begins with "/" or "!"
Prefixed(content) == Len(content) > 0 /\ content[1] \in PrefixChars

\* a pattern of the list matches the text as command() / hears() match it
Matches(w, text) ==
  /\ Len(text) > 0
  /\ \E p \in 1..Len(w.arr) :
       \/ w.arr[p].kind = "re" /\ test(w.arr[p].v, text)
       \/ w.arr[p].kind = "str" /\ w.type = "hears" /\ text = w.arr[p].v
       \/ w.arr[p].kind = "str" /\ w.type = "command" /\ split0(text) = replaceSlash(w.arr[p].v)

\* A then B: two handlers of one registry, both command() or both hears()
Pairs(reg) ==
  { ab \in (1..Len(handlers[reg])) \X (1..Len(handlers[reg])) :
      /\ ab[1] < ab[2]
      /\ handlers[reg][ab[1]].type = handlers[reg][ab[2]].type
      /\ handlers[reg][ab[1]].type \in {"command", "hears"} }

\* the scene middleware found an active scene and ran handle
sceneTook(l) ==
  \E k \in ops(l, "middleware") :
    l[k].out = "scene" /\ k < Len(l) /\ l[k + 1].op \in {"step", "leave"}

\* ------------------------------------------------------------ claims
\* C1: first match wins. When the registry is consulted for a message event
\* and the specs of A and B (registered in this order in the same registry)
\* both match the text, the cycle invokes A's handler and never B's.
C1_FirstMatchWins ==
  \A reg \in {"command", "message"} : \A ab \in Pairs(reg) :
    ( /\ pc \in {"command", "message", "persist", "done"}
      /\ called(reg, ab[1])
      /\ Matches(handlers[reg][ab[1]], ctx.text)
      /\ Matches(handlers[reg][ab[2]], ctx.text) )
    => (invoked(reg, ab[1]) /\ ~invoked(reg, ab[2]))

\* C2: scene priority. In a cycle where the scene middleware found an active
\* registered scene and leave is not called, no command handler and no hears
\* handler is invoked, whatever the step does (advance, retry or throw).
C2_ScenePriority ==
  ("scene" \in { middlewares[i] : i \in 1..Len(middlewares) } /\ sceneTook(log) /\ ops(log, "leave") = {})
  => (ops(log, "command") = {} /\ ops(log, "message") = {})

\* a command() handler of this cycle matched and its function returned
commandCompleted(l) ==
  \E k \in ops(l, "command") :
    handlers.command[l[k].i].type = "command" /\ ~failed("command", l[k].i)

\* the scene middleware's handle returned (the step did not throw)
sceneCompleted(l) ==
  \E k \in ops(l, "middleware") :
    /\ l[k].out = "scene" /\ k < Len(l)
    /\ \/ l[k + 1].op = "leave"
       \/ l[k + 1].op = "step" /\ l[k + 1].out # "throw"

C4_FreeTextNeverReachesCommand ==
  (pc # "idle" /\ ops(log, "bot") = {} /\ ~Prefixed(ctx.content)) =>
    /\ ops(log, "command") = {}
    /\ \A i \in 1..Len(handlers.command) : ~called("command", i)
    /\ ctx.text = ctx.content
    /\ \A i \in 1..Len(handlers.message) :
         (handlers.message[i].type = "hears" /\ invoked("message", i))
           => Matches(handlers.message[i], ctx.content)

\* C4 witness: a free-text event has been through the message registry and a
\* hears handler ran on it
C4_Witness ==
  /\ CycleEnd
  /\ ~Prefixed(ctx.content)
  /\ Len(ctx.content) > 0
  /\ \E i \in 1..Len(handlers.message) :
       handlers.message[i].type = "hears" /\ invoked("message", i)

\* C9: every processed message event ends its cycle with the session written
\* back to the dispatcher's store for its sender: the stored session is the
\* Context's session when the callback returns.
C9_PersistAfterEveryEvent ==
  CycleEnd =>
    /\ ops(log, "persist") # {}
    /\ has(sessionsFile, ctx.author)
    /\ sessionsFile[ctx.author] = ctx.session

\* the session's step, -1 when the key is absent
stepOf(s) == IF has(s, "step") THEN s["step"] ELSE -1

\* the session the dispatcher's store holds for an id
stored(id) == IF has(sessionsFile, id) THEN sessionsFile[id] ELSE EmptySession

\* C5 (as stated): after the scene is entered from a handler and exactly one
\* further qualifying text event is fed, the session's step is 1; if the step
\* signals retry on that event, step is still 0.
C5_StepAdvanceLaw ==
  (CycleEnd /\ scen.on /\ scen.n = 1) =>
    /\ scen.last = "advance" => stepOf(ctx.session) = 1
    /\ (scen.last = "retry" /\ lastStep(log).i = 0) => stepOf(ctx.session) = 0

\* C5 (amended): entering the scene from a handler runs s0 in the entering
\* cycle, so step is already 1 when that cycle ends if the entering event has
\* non-empty text and s0 does not signal retry, and 0 otherwise; the next
\* event of the conversation that the scene middleware takes leaves step one
\* higher if it has non-empty text and the step run on it does not signal
\* retry (2 after an advancing entry), and unchanged if that step signals
\* retry or the event has no text. The stored session has the same step.
C5_StepAdvanceFromEntry ==
  (CycleEnd /\ scen.on /\ scen.n <= 1) =>
    /\ scen.last # "left"
    /\ stepOf(ctx.session) = scen.e + scen.adv
    /\ stepOf(stored(ctx.author)) = scen.e + scen.adv
    /\ has(ctx.session, "__scene")

\* C5 witness: an advancing entry, then one qualifying event whose step advanced
C5_Witness ==
  CycleEnd /\ scen.on /\ scen.n = 1 /\ scen.e = 1 /\ scen.last = "advance"

\* every event fed since the entry ran a step that advanced, or, for the
\* latest one, found the steps used up
allAdvanced(s) == s.adv = s.n \/ (s.last = "left" /\ s.adv = s.n - 1)

\* C6 (as stated): three-step scene, no retry, no leave in a step: after
\* entering and two fed text events step == 2, and the third fed text event
\* triggers leave, no step runs on it, and the persisted session is empty.
C6_ThreeStepScenario ==
  (CycleEnd /\ nsteps = 3 /\ scen.on /\ allAdvanced(scen)) =>
    /\ scen.n = 2 => stepOf(ctx.session) = 2
    /\ scen.n = 3 => (scen.last = "left" /\ ops(log, "step") = {} /\ stored(ctx.author) = EmptySession)

\* C6 (amended): three-step scene, no retry, throw or leave in a step, entered
\* from a handler on a text event (the first step runs in the entering cycle
\* and leaves step == 1): after two fed text events step == 3, and the third
\* fed text event triggers leave, no step function runs on it, and the
\* persisted session afterwards is the empty mapping.
C6_ThreeStepFromEntry ==
  (CycleEnd /\ nsteps = 3 /\ scen.on /\ scen.e = 1 /\ allAdvanced(scen)) =>
    /\ scen.n = 0 => stepOf(ctx.session) = 1
    /\ scen.n = 2 => (stepOf(ctx.session) = 3 /\ stepOf(stored(ctx.author)) = 3)
    /\ scen.n = 3 =>
         /\ scen.last = "left"
         /\ ops(log, "step") = {}
         /\ ctx.session = EmptySession
         /\ has(sessionsFile, ctx.author)
         /\ sessionsFile[ctx.author] = EmptySession
    /\ scen.n <= 3

\* C6 witness: the third event fed to the three-step scene made the engine leave
C6_Witness ==
  CycleEnd /\ nsteps = 3 /\ scen.on /\ scen.e = 1 /\ scen.n = 3 /\ scen.last = "left"

\* the registered wrapper of the matcher runs, the registry it is in, and
\* whether it has been called
matched == handlers[CHOOSE reg \in {"command", "message", "action"} : Len(handlers[reg]) = 1][1]

applied == pc = "match" /\ Len(log) > 0

\* the reference matcher: an exact string spec matches iff the input equals
\* it, a regex spec iff regex.test(input), a list iff one of its elements does
Reference(arr, input) ==
  \E i \in 1..Len(arr) :
    \/ arr[i].kind = "str" /\ input = arr[i].v
    \/ arr[i].kind = "re" /\ test(arr[i].v, input)

\* the string a hears or action wrapper is given to match
inputOf(c) == IF "payload" \in DOMAIN c THEN c.payload.v ELSE c.text

\* C11 (as stated): for every input and every hears or action spec of the
\* bounded sets, the handler is invoked iff the reference matcher matches:
\* exact string iff equal, regex iff test, list iff some element matches.
C11_MatcherAgreesWithReference ==
  (applied /\ matched.type \in {"hears", "action"} /\ ("payload" \in DOMAIN ctx => ctx.payload.defined))
  => (invoked(registryOf(matched), 1) <=> Reference(matched.arr, inputOf(ctx)))

\* C11 (amended): for every non-empty input and every hears or action spec of
\* the bounded sets, the handler is invoked iff the reference matcher matches;
\* on the empty text a hears handler is never invoked, whatever its spec.
C11_MatcherAgreesOnNonEmpty ==
  (applied /\ matched.type \in {"hears", "action"} /\ ("payload" \in DOMAIN ctx => ctx.payload.defined))
  => /\ Len(inputOf(ctx)) > 0
          => (invoked(registryOf(matched), 1) <=> Reference(matched.arr, inputOf(ctx)))
     /\ (matched.type = "hears" /\ Len(ctx.text) = 0) => ~invoked("message", 1)

\* C11 witness: a hears handler with a list spec was invoked on a text that
\* only the second element, a regex, matches
C11_Witness ==
  /\ applied /\ matched.type = "hears" /\ invoked("message", 1)
  /\ Len(matched.arr) = 2 /\ matched.arr[2].kind = "re" /\ Len(matched.arr[2].v) > 0
  /\ ~Reference(<< matched.arr[1] >>, ctx.text)

\* C12: a command registered with an exact string spec that carries a leading
\* "/" or "!" is invoked on exactly the messages whose first space-delimited
\* token, after the message's own prefix is removed, equals the spec without
\* its prefix.
C12_PrefixStrippedBothSides ==
  (applied /\ matched.type = "command" /\ Len(matched.arr) = 1
     /\ matched.arr[1].kind = "str" /\ Prefixed(matched.arr[1].v) /\ Len(matched.arr[1].v) > 1)
  => (invoked("command", 1) <=>
        (Len(ctx.text) > 0 /\ split0(ctx.text) = SubSeq(matched.arr[1].v, 2, Len(matched.arr[1].v))))

\* C13: an event whose matched field is empty or absent (text for command and
\* hears, payload for action) never has a pattern handler invoked, for every
\* spec, the exact spec "" and regexes that accept the empty string included.
C13_EmptyNeverMatches ==
  (applied /\ Len(inputOf(ctx)) = 0) => ~invoked(registryOf(matched), 1)

\* how many times the function of handler i of registry reg was invoked in this cycle
invocations(reg, i) == Cardinality({ k \in ops(log, reg) : log[k].i = i })

\* a command name: a non-empty string without a space or a prefix character
IsName(v) == Len(v) > 0 /\ \A k \in 1..Len(v) : v[k] = "a"

\* no scene step ran and no scene was left in this cycle before handler i of
\* registry reg was invoked
noSceneBefore(reg, i) ==
  \A k \in ops(log, "step") \cup ops(log, "leave") :
    \E m \in ops(log, reg) : m < k /\ log[m].i = i

\* C14: with no active scene and no earlier matching command, for a command
\* registered with the exact spec c, a message whose content is "/c" or "!c",
\* optionally followed by a space and arguments, invokes the handler exactly
\* once, with ctx.text the content without its first character.
C14_CommandDispatch ==
  \A i \in 1..Len(handlers.command) :
    LET w == handlers.command[i]
    IN ( /\ CycleEnd
         /\ w.type = "command" /\ Len(w.arr) = 1 /\ w.arr[1].kind = "str" /\ IsName(w.arr[1].v)
         /\ Prefixed(ctx.content)
         /\ split0(SubSeq(ctx.content, 2, Len(ctx.content))) = w.arr[1].v
         /\ noSceneBefore("command", i)
         /\ \A j \in 1..(i - 1) : ~invoked("command", j) )
       => (invocations("command", i) = 1 /\ ctx.text = SubSeq(ctx.content, 2, Len(ctx.content)))

\* C16: with no active scene and no earlier matching hears handler, a
\* non-command text event that a regex of a hears handler's spec matches has
\* that handler invoked once, and ctx.handled is true when the cycle ends.
C16_HearsRegexDispatch ==
  \A i \in 1..Len(handlers.message) :
    LET w == handlers.message[i]
    IN ( /\ CycleEnd
         /\ w.type = "hears"
         /\ ~Prefixed(ctx.content) /\ Len(ctx.content) > 0
         /\ \E p \in 1..Len(w.arr) : w.arr[p].kind = "re" /\ test(w.arr[p].v, ctx.content)
         /\ noSceneBefore("message", i)
         /\ \A j \in 1..(i - 1) :
              handlers.message[j].type = "hears" => ~Matches(handlers.message[j], ctx.content) )
       => (invocations("message", i) = 1 /\ ctx.handled)

\* C17: an exception raised by a command or hears handler is caught within the
\* cycle and passed to the global error handler if one is configured, to
\* console.error otherwise; nothing is thrown out of the event callback and
\* the cycle runs to its end.
C17_HandlerErrorsStayInside ==
  (CycleEnd /\ \E k \in ops(log, "error") : log[k].out \in {"command", "message"})
  => /\ \A k \in ops(log, "error") :
          log[k + 1].op = (IF errorHandler = "null" THEN "console.error" ELSE "errorHandler")
     /\ ops(log, "escaped") = {}

\* C18: in every processed message event each registered middleware is
\* invoked exactly once, in registration order, after the session load and
\* before any command or hears handler is called.
C18_MiddlewarePipeline ==
  CycleEnd =>
    /\ \A i \in 1..Len(middlewares) :
         Cardinality({ k \in ops(log, "middleware") : log[k].i = i }) = 1
    /\ \A k \in ops(log, "middleware"), m \in ops(log, "middleware") :
         k < m => log[k].i < log[m].i
    /\ \A k \in ops(log, "middleware"), h \in ops(log, "handler") : k < h

\* the callback of a button interaction has returned
InteractionEnd == pc = "done" /\ "payload" \in DOMAIN ctx /\ ops(log, "notButton") = {}

\* C15: an action handler registered with a list spec is invoked exactly once
\* for an interaction whose payload equals one of the list's elements, also
\* when several elements match, and not at all for a payload that matches no
\* element; every dispatch starts anew.
C15_ActionListSpec ==
  \A i \in 1..Len(handlers.action) :
    LET w == handlers.action[i]
    IN (InteractionEnd /\ w.type = "action" /\ Len(w.arr) > 1 /\ ctx.payload.defined)
       => invocations("action", i) = (IF Reference(w.arr, ctx.payload.v) THEN 1 ELSE 0)

\* C19: every button interaction is acknowledged (deferUpdate) exactly once,
\* after all registered action handlers have been called, also when none
\* matches or one throws; a failing acknowledgement is swallowed.
C19_AcknowledgeOnce ==
  InteractionEnd =>
    /\ Cardinality(ops(log, "deferUpdate")) = 1
    /\ \A i \in 1..Len(handlers.action) : called("action", i)
    /\ \A d \in ops(log, "deferUpdate"), h \in ops(log, "handler") : h < d

\* the step index the scene middleware's handle found in the session
sceneStep(l) ==
  l[(CHOOSE k \in ops(l, "middleware") : l[k].out = "scene" /\ k < Len(l) /\ l[k + 1].op \in {"step", "leave"}) + 1].i

\* C20: with session() and the scene middleware registered as in the example
\* and two users inside the scene, an event sent by one user runs the scene
\* step of its sender only: the step the scene middleware runs in a cycle is
\* the one the sender's own session, stored under the sender's id, stands at,
\* also when both users write in the same channel.
C20_IndependentSceneState ==
  ( /\ pc \in {"mw", "command", "message", "persist"}
    /\ \A u \in Members : has(stored(u), "__scene")
    /\ sceneTook(log) )
  => sceneStep(log) = stepOf(stored(ctx.author))

\* C21: a matched handler that throws consumes the match. After a command()
\* or hears() handler whose spec matched the text has thrown, no later handler
\* of that registry is invoked for that event.
C21_ThrowConsumesMatch ==
  \A reg \in {"command", "message"} : \A i \in 1..Len(handlers[reg]) :
    ( /\ handlers[reg][i].type \in {"command", "hears"}
      /\ invoked(reg, i)
      /\ failed(reg, i) )
    => \A j \in (i + 1)..Len(handlers[reg]) : ~invoked(reg, j)

\* the session() middlewares of the program
sessionKinds == { i \in 1..Len(middlewares) : middlewares[i] \in {"session_memory", "session_file"} }

\* the session the middlewares after session() and the handlers of the
\* conversation's next event will be given: the dispatcher's load for the
\* author, replaced by the load of the last session() middleware for the chat
loadedNext(author, chat) ==
  IF sessionKinds = {} THEN sessionStore_get(sessionsFile, author)
  ELSE LET last == CHOOSE i \in sessionKinds : \A j \in sessionKinds : j <= i
       IN IF middlewares[last] = "session_memory"
          THEN MemorySessionStore_get(memSessions, chat)
          ELSE FileSessionStore_get(sessionsFile, chat)

\* where in the log the step run by the scene middleware's handle threw
sceneThrew(l) ==
  { k \in ops(l, "step") : k > 1 /\ l[k].out = "throw" /\ l[k - 1].op = "middleware" /\ l[k - 1].out = "scene" }

\* C22: scene step failure. When the step run by the scene middleware's
\* handle throws, the error is forwarded to the global error handler
\* (console.error when none is set), the session's step and __scene stay what
\* they were before the step ran for the rest of the cycle, and the session
\* the next event of the conversation is given has them too, so that the same
\* step runs on it.
C22_StepFailureKeepsStep ==
  \A k \in sceneThrew(log) :
    /\ Len(log) >= k + 2
    /\ log[k + 1] = Entry("error", log[k - 1].i, "middleware")
    /\ log[k + 2].op = (IF errorHandler = "null" THEN "console.error" ELSE "errorHandler")
    /\ has(ctx.session, "__scene") /\ ctx.session["__scene"] = SceneName
    /\ stepOf(ctx.session) = log[k].i
    /\ CycleEnd =>
         /\ has(loadedNext(ctx.author, ctx.chat), "__scene")
         /\ loadedNext(ctx.author, ctx.chat)["__scene"] = SceneName
         /\ stepOf(loadedNext(ctx.author, ctx.chat)) = log[k].i

\* C23: advance condition. A handle call that runs step k (the step function
\* returns) sets the session's step to k + 1 exactly when the event carries
\* non-empty text, the step's result is not the retry signal and the step
\* function left step equal to k; in every other case (retry, no text, the
\* step called leave or jumped) the session is what the step function left;
\* after a retry, handle on the next event runs step k again.
C23_AdvanceCondition ==
  [][ ( /\ pc = "scene" /\ Len(log') >= 2
        /\ log'[1].op = "call" /\ log'[1].out = "handle"
        /\ log'[2].op = "step" /\ log'[2].out # "throw" ) =>
        LET k == log'[2].i
            r == stepFn(ctx, k, log'[2].out)
            advances == /\ truthy(ctx.text)
                        /\ r.result # "false"
                        /\ has(r.ctx.session, "step") /\ r.ctx.session["step"] = k
        IN /\ k = (IF has(ctx.session, "step") THEN ctx.session["step"] ELSE 0)
           /\ advances => ctx'.session = put(r.ctx.session, "step", k + 1)
           /\ ~advances => ctx'.session = r.ctx.session
           /\ r.result = "false" =>
                \A content \in Contents :
                  handle([Context(ctx.author, ctx.chat, content) EXCEPT !.session = ctx'.session],
                         "advance").log[1] = Entry("step", k, "advance") ]_vars

\* C23 witness: handle ran step 2 on an event with text, the step jumped back
\* to 0 and the engine left step at 0
C23_Witness ==
  /\ pc = "scene"
  /\ Len(log) = 2 /\ log[1].out = "handle" /\ log[2] = Entry("step", 2, "jump")
  /\ truthy(ctx.text)
  /\ stepOf(ctx.session) = 0

\* where in the log a session store is written: the dispatcher's
\* sessionStore.set, and the store.set that ends a session() middleware
writes(l) ==
  ops(l, "persist") \cup
    { k \in ops(l, "middleware") : l[k].out \in {"session_memory", "session_file"} }

\* C24: session writes follow the handlers. Within one message cycle every
\* write of the conversation's session to a session store comes after all
\* middleware, scene steps and handlers of the cycle, and the session loaded
\* for the next event of the conversation is the session the cycle ended with.
C24_WritesFollowHandlers ==
  CycleEnd =>
    /\ \A k \in writes(log) :
         \A m \in ops(log, "middleware") \cup ops(log, "step") \cup ops(log, "handler") : m <= k
    /\ loadedNext(ctx.author, ctx.chat) = ctx.session

\* where in the log the step run by the scene middleware's handle called leave
sceneStepLeft(l) ==
  { k \in ops(l, "leave") :
      /\ l[k].out = "step" /\ k > 2
      /\ l[k - 1].op = "step"
      /\ l[k - 2].op = "middleware" /\ l[k - 2].out = "scene" }

\* C25: leave falls through to routing. When the step run by the scene
\* middleware's handle calls leave, the command or hears registry is consulted
\* for that same event, and if a command() or hears() handler's spec matches
\* the event's text a handler is invoked in the same cycle.
C25_LeaveFallsThrough ==
  (CycleEnd /\ sceneStepLeft(log) # {}) =>
    /\ ops(log, "handler") # {}
    /\ ( \E reg \in {"command", "message"} : \E i \in 1..Len(handlers[reg]) :
           /\ handlers[reg][i].type \in {"command", "hears"}
           /\ reg = "command" => isCommand(ctx.content)
           /\ Matches(handlers[reg][i], routedText(ctx.content)) )
       => ops(log, "command") \cup ops(log, "message") # {}

\* C26: scenes intercept action events. A button interaction arriving from a
\* conversation whose stored session names an active scene is handled by the
\* scene's current step and is not dispatched to any action-registry handler.
C26_ScenesInterceptActions ==
  ( /\ InteractionEnd
    /\ has(MemorySessionStore_get(memSessions, ctx.chat), "__scene")
    /\ MemorySessionStore_get(memSessions, ctx.chat)["__scene"] = SceneName )
  => /\ \E k \in ops(log, "step") :
          log[k].i = stepOf(MemorySessionStore_get(memSessions, ctx.chat))
     /\ ops(log, "action") = {}
     /\ \A i \in 1..Len(handlers.action) : ~called("action", i)

\* C27: the handled flag short-circuits the action registry. For an
\* interaction whose payload matches the specs of two action() handlers
\* registered in the order A then B, once A's handler has returned and
\* ctx.handled is set, B's handler is not invoked for that event.
C27_HandledStopsActions ==
  \A a \in 1..Len(handlers.action) : \A b \in (a + 1)..Len(handlers.action) :
    ( /\ "payload" \in DOMAIN ctx
      /\ handlers.action[a].type = "action" /\ handlers.action[b].type = "action"
      /\ invokes(handlers.action[a], ctx) /\ invokes(handlers.action[b], ctx)
      /\ invoked("action", a) /\ ~failed("action", a)
      /\ ctx.handled )
    => ~invoked("action", b)

\* C28: best-effort middleware. When a middleware throws, the error is
\* forwarded to the global error handler (console.error when none is set),
\* every middleware registered after it is still invoked, the command / hears
\* registries are still consulted for the event (unless a scene step took it)
\* and the cycle reaches its persistence stage.
C28_BestEffortMiddleware ==
  (CycleEnd /\ \E k \in ops(log, "error") : log[k].out = "middleware") =>
    /\ \A k \in ops(log, "error") :
         log[k].out = "middleware" =>
           /\ Len(log) > k
           /\ log[k + 1].op = (IF errorHandler = "null" THEN "console.error" ELSE "errorHandler")
    /\ \A i \in 1..Len(middlewares) : \E k \in ops(log, "middleware") : log[k].i = i
    /\ ~sceneCompleted(log) => ops(log, "handler") # {}
    /\ ops(log, "persist") # {} \/ earlyReturn(ctx)

\* C29: entering a scene. From any prior session state, enter(ctx) sets
\* __scene to the scene's name and step to 0 and then runs the scene's first
\* step exactly once, on the same Context, before it returns: when enter has
\* returned (or thrown the step's error) the session has __scene and step 1
\* if that step advanced, step 0 if it did not, and is empty if it called leave.
C29_EnterRunsFirstStep ==
  [][ (pc = "scene" /\ Len(log') >= 1 /\ log'[1].op = "call" /\ log'[1].out = "enter") =>
        /\ Len(log') >= 2
        /\ log'[2].op = "step" /\ log'[2].i = 0
        /\ Cardinality(ops(log', "step")) = 1
        /\ ctx'.author = ctx.author /\ ctx'.chat = ctx.chat /\ ctx'.content = ctx.content
        /\ IF log'[2].out = "leave"
           THEN ctx'.session = EmptySession /\ ctx'.scene = "null"
           ELSE /\ ctx'.scene = SceneName
                /\ ctx'.session =
                     [k \in DOMAIN ctx.session \cup {"__scene", "step"} \cup
                            (IF log'[2].out = "write" THEN {"data"} ELSE {}) |->
                        CASE k = "__scene" -> SceneName
                          [] k = "step" -> IF log'[2].out \in {"advance", "write"} /\ truthy(ctx.text)
                                           THEN 1 ELSE 0
                          [] k = "data" /\ log'[2].out = "write" -> "v1"
                          [] OTHER -> ctx.session[k]] ]_vars

\* C29 witness: enter was called on a session that held a scene name, a step
\* and data; the first step ran and advanced
C29_Witness ==
  /\ pc = "scene"
  /\ Len(log) = 2 /\ log[1] = Entry("call", 3, "enter") /\ log[2] = Entry("step", 0, "advance")
  /\ stepOf(ctx.session) = 1 /\ has(ctx.session, "data")
  /\ ctx.shared

\* C30 (as stated): when handle is invoked with step >= the number of steps,
\* no step function is invoked and leave is performed (session emptied,
\* scene-stopped flag set), and this is the only way a scene whose steps never
\* call leave returns to Idle: whenever a session that named a scene names
\* none after a call in which no step called leave, the call was such a handle.
C30_OnlyWayToIdle ==
  [][ (pc = "scene" /\ Len(log') >= 1 /\ log'[1].op = "call") =>
        /\ (log'[1].out = "handle" /\ stepOf(ctx.session) >= nsteps) =>
             /\ log' = << log'[1], Entry("leave", stepOf(ctx.session), "handle") >>
             /\ ctx'.session = EmptySession
             /\ ctx'.sceneStopped
        /\ ( /\ has(ctx.session, "__scene") /\ ~has(ctx'.session, "__scene")
             /\ \A k \in ops(log', "leave") : log'[k].out # "step" )
           => /\ log'[1].out = "handle"
              /\ stepOf(ctx.session) >= nsteps ]_vars

\* C30 (amended): when handle is invoked with step >= the number of steps, no
\* step function is invoked and leave is performed (the session is emptied,
\* the scene-stopped flag is set, ctx.scene is null, ctx.handled is set); and
\* among the calls of enter and handle, with steps that do not call leave,
\* this is the only one after which a session that named a scene names none.
\* A direct call of leave by other code returns the scene to Idle as well.
C30_PastLastStep ==
  [][ (pc = "scene" /\ Len(log') >= 1 /\ log'[1].op = "call") =>
        /\ (log'[1].out = "handle" /\ stepOf(ctx.session) >= nsteps) =>
             /\ log' = << log'[1], Entry("leave", stepOf(ctx.session), "handle") >>
             /\ ctx'.session = EmptySession
             /\ ctx'.sceneStopped
             /\ ctx'.scene = "null"
             /\ ctx'.handled
        /\ ( /\ has(ctx.session, "__scene") /\ ~has(ctx'.session, "__scene")
             /\ log'[1].out # "leave"
             /\ \A k \in ops(log', "leave") : log'[k].out # "step" )
           => /\ log'[1].out = "handle"
              /\ stepOf(ctx.session) >= nsteps
              /\ ops(log', "step") = {} ]_vars

\* C30 witness: handle was called at step = the number of steps on a session
\* holding a scene name, the step and data, and left the scene
C30_Witness ==
  /\ pc = "scene"
  /\ log = << Entry("call", 3, "handle"), Entry("leave", nsteps, "handle") >>
  /\ ctx.session = EmptySession
  /\ ctx.sceneStopped

\* C32: secondary errors are swallowed. If the global error handler itself
\* throws while it is given a handler, middleware or scene-step error (the
\* "escaped" entry of the log), the error does not leave the event callback:
\* the cycle goes on to its remaining stages and ends at the persistence stage.
C32_SecondaryErrorsSwallowed ==
  \A k \in ops(log, "escaped") :
    /\ pc = "done" => (k < Len(log) /\ (ops(log, "persist") # {} \/ earlyReturn(ctx)))
    /\ pc # "done" => pc \in {"mw", "command", "message", "persist"}
    /\ \A i \in 1..Len(middlewares) : pc \in {"command", "message", "persist", "done"} =>
         \E m \in ops(log, "middleware") : log[m].i = i

\* C38: bot-authored messages are inert. A message event whose author is a bot
\* loads no session (no Context is built), runs no middleware, scene step or
\* handler (the log of its cycle holds the guard's return only) and writes
\* nothing to a session store, until the callback has returned.
C38_BotMessagesInert ==
  [][ (ops(log, "bot") # {} \/ ops(log', "bot") # {}) =>
        /\ sessionsFile' = sessionsFile
        /\ memSessions' = memSessions
        /\ ctx' = NoContext
        /\ ops(log', "bot") # {} => (log' = << Entry("bot", 0, "return") >> /\ pc' = "done")
        /\ ops(log', "bot") = {} => (log' = << >> /\ pc' = "idle") ]_vars

\* C38 witness: the callback returned on a bot-authored message while the
\* stores held a session of the conversation
C38_Witness ==
  /\ pc = "done"
  /\ log = << Entry("bot", 0, "return") >>
  /\ has(stored("u1"), "__scene")

\* C37: action events leave sessions untouched. Dispatching a button
\* interaction runs no middleware, loads no session (the action handlers are
\* given an empty session mapping, no store's object) and writes nothing to a
\* session store: every stored session is the same before and after each
\* step of the event, whatever the action handlers assign to ctx.session.
C37_ActionsLeaveSessions ==
  [][ /\ sessionsFile' = sessionsFile
      /\ memSessions' = memSessions
      /\ ops(log', "middleware") = {}
      /\ ops(log', "persist") = {}
      /\ (pc = "idle" /\ pc' = "action") => (ctx'.session = EmptySession /\ ~ctx'.shared) ]_vars

\* C37 witness: an action handler has assigned a key of ctx.session in an
\* interaction from a channel whose stored session names a scene; the stored
\* session has no such key
C37_Witness ==
  /\ InteractionEnd
  /\ ops(log, "deferUpdate") # {}
  /\ has(ctx.session, "data")
  /\ memSessions[ctx.chat] = [__scene |-> SceneName, step |-> 1]
  /\ \A u \in Users : sessionsFile[u] = [__scene |-> SceneName, step |-> 1]

C34_StepIndexBound ==
  pc = "scene" =>
    /\ has(ctx.session, "__scene") =>
         /\ has(ctx.session, "step")
         /\ ctx.session["step"] \in 0..nsteps
    /\ \A k \in ops(log, "step") : log[k].i \in 0..(nsteps - 1)

\* C34 witness: the last step has advanced, step stands at n and the scene is
\* still named
C34_Witness ==
  /\ pc = "scene"
  /\ has(ctx.session, "__scene") /\ stepOf(ctx.session) = nsteps /\ nsteps = MaxSteps
  /\ Len(log) = 2 /\ log[1].out = "handle" /\ log[2].i = nsteps - 1

\* C33: sequential handler invocation. Within one event's cycle a handler of
\* a registry is not invoked until the previous handler's asynchronous
\* invocation has completed: at most one handler is pending, every earlier
\* invocation has settled before the next one, and ctx.handled is not set
\* when a handler is invoked (it is tested after each completed handler).
C33_SequentialHandlers ==
  pc \in {"awaitCommand", "awaitMessage", "done"} =>
    /\ Cardinality(pending(log)) <= 1
    /\ pending(log) # {} => ~ctx.handled
    /\ \A k \in ops(log, "invoke"), n \in ops(log, "invoke") :
         k < n => \E m \in ops(log, "settled") :
                    k < m /\ m < n /\ log[m].i = log[k].i /\ log[m].out = log[k].out

\* C33 witness: a first hears handler was invoked and threw, a second one was
\* invoked after it had settled and returned, and the loop was left
C33_Witness ==
  /\ pc = "done"
  /\ failed("message", 1)
  /\ invoked("message", 2)
  /\ Cardinality(ops(log, "settled")) = 2
  /\ ctx.handled

\* C36: store isolation across ids. Under any interleaving of get, set and
\* clear calls for different ids on a session store (memory or file-backed)
\* in one process, no update is lost: each id's stored mapping is the last one
\* set for that id and not cleared since (a JSON-representable one comes back
\* equal from the file), and a get, set or clear for one id never changes
\* the mapping of another id.
C36_StoreIsolation ==
  [][ pc = "store" =>
        /\ \A id \in Ids :
             /\ has(memSessions', id) <=> has(io'.memory, id)
             /\ has(memSessions', id) => memSessions'[id] = io'.memory[id]
             /\ has(sessionsFile', id) <=> has(io'.file, id)
             /\ has(sessionsFile', id) =>
                  /\ sessionsFile'[id] = jsonRoundTrip(io'.file[id])
                  /\ JsonRepresentable(io'.file[id]) => sessionsFile'[id] = io'.file[id]
        /\ \A id \in Ids \ {io'.id} :
             /\ has(memSessions', id) <=> has(memSessions, id)
             /\ has(memSessions, id) => memSessions'[id] = memSessions[id]
             /\ has(sessionsFile', id) <=> has(sessionsFile, id)
             /\ has(sessionsFile, id) => sessionsFile'[id] = sessionsFile[id]
        /\ io'.op = "get" => (memSessions' = memSessions /\ sessionsFile' = sessionsFile) ]_vars

\* C36 witness: the file store has been given a session for u1 after one for
\* c1, and holds both
C36_Witness ==
  /\ pc = "store"
  /\ io.op = "set" /\ io.store = "FileSessionStore" /\ io.id = "u1"
  /\ has(sessionsFile, "c1") /\ sessionsFile["c1"] = [__scene |-> SceneName, step |-> 0]
  /\ has(sessionsFile, "u1") /\ sessionsFile["u1"] = [data |-> "v1"]

\* where in the log event e did op
at(e, op) == { k \in ops(log, op) : log[k].i = e }

C7_LeaveResets ==
  [][ (pc = "scene" /\ Len(log') = 1 /\ log'[1].op = "call" /\ log'[1].out = "leave") =>
        /\ ctx'.session = EmptySession
        /\ ctx'.scene = "null"
        /\ ctx'.shared = ctx.shared
        /\ ctx'.shared => (has(memSessions', ctx'.chat) /\ memSessions'[ctx'.chat] = EmptySession)
        /\ leave(ctx') = ctx' ]_vars

\* C7 witness: leave has been called on a session holding a scene name, a step and data
C7_Witness ==
  /\ pc = "scene"
  /\ Len(log) = 1 /\ log[1].out = "leave" /\ log[1].i = 3
  /\ ctx.shared

\* C8: from an empty session, after every enter, handle or leave (steps that
\* write only non-reserved keys or call leave) the session has `step` if and
\* only if it has `__scene`.
C8_SessionKeys ==
  pc = "scene" => (has(ctx.session, "step") <=> has(ctx.session, "__scene"))

\* C8 witness: a handle call has advanced an entered scene, with user data set
C8_Witness ==
  /\ pc = "scene"
  /\ Len(log) > 0 /\ log[1].out = "handle"
  /\ has(ctx.session, "__scene") /\ stepOf(ctx.session) = 2 /\ has(ctx.session, "data")

\* the store a store object keeps its sessions in
backing(store) == IF store = "MemorySessionStore" THEN io.memory ELSE io.file

\* C10: for each of the three stores and any mapping M of JSON-representable
\* values, a get(id) issued after set(id, M) and before any other set or clear
\* for that id returns a mapping equal to M.
C10_RoundTrip ==
  (pc = "store" /\ io.op = "get" /\ has(backing(io.store), io.id)
     /\ JsonRepresentable(backing(io.store)[io.id]))
  => io.session = backing(io.store)[io.id]

\* C10 witness: the default store returned a session, with a null in it, that
\* FileSessionStore.set wrote or the other way round
C10_Witness ==
  /\ pc = "store" /\ io.op = "get" /\ io.store # "MemorySessionStore"
  /\ has(io.file, io.id)
  /\ io.file[io.id] = [data |-> "null"]

====
